---------------------------- MODULE Spec2Model ----------------------------
(***************************************************************************)
(* A model of the GeoJSON ingestion pipeline:                              *)
(*   - terraform/lambda/s3_processor.py : the Lambda handler that launches *)
(*     one ECS task per uploaded .geojson object (SpecDispatch);           *)
(*   - docker/geojson-processor/app.py  : GeoJSONProcessor, whose          *)
(*     validate_geojson is a pure function (SpecValidate) and whose        *)
(*     process_geojson_file fetches, validates and loads one object        *)
(*     (SpecProc); the table name of lines 128-129 on two keys (SpecName), *)
(*     the POST /process handler (SpecApi), get_db_connection called by    *)
(*     the threads of one process (SpecConn), and several workers loading  *)
(*     the same key at once (SpecConc).                                    *)
(* Strings whose characters the code inspects (object keys) are sequences  *)
(* of one-character strings; messages are tuples <<text, argument>>.       *)
(***************************************************************************)
EXTENDS Integers, Sequences, FiniteSets, Bags, TLC

VARIABLES
    \* ---- s3_processor.py: one invocation of handler(event, context)
    event,      \* event['Records']: a sequence of [bucket, key] (key as sent, percent-encoded)
    hpc,        \* "loop" while the for loop runs, "done" once handler has returned
    idx,        \* index (1-based) of the record the for loop is at
    attempts,   \* run_ecs_task calls made so far: <<[rec, bucket, key, outcome]>>, rec the record's index
    started,    \* ECS tasks actually started: <<[bucket, key]>> (the container overrides)
    hlog,       \* what handler and run_ecs_task logged: <<[level, msg]>>
    response,   \* handler's return value, None until it returns
    \* ---- app.py: one call of GeoJSONProcessor.validate_geojson
    geojson_data,   \* the parsed JSON value handed to validate_geojson
    vresult,        \* <<is_valid, message>> as validate_geojson returned it, <<>> before the call
    \* ---- app.py: the worker process and its calls of process_geojson_file
    store,      \* the S3 bucket: key -> the object's content ("missing": no such object)
    nputs,      \* uploads (overwrites of an object) so far
    db_engine,  \* processor.db_engine: None or the cached engine
    tables,     \* the destination database as every session sees it: name -> [exists, rows]
    tx,         \* the open transaction of to_postgis: [open, name, rows]
    ppc,        \* where the invocation is: idle, fetch, read, connect, load, chunk, done
    cur,        \* the arguments of the invocation: [bucket, key, puts0]
    gdf,        \* the GeoDataFrame of lines 117-122: [n, doc, processing_id]
    result,     \* how the invocation ended: [ret, ok, msg]
    plog,       \* what the invocation logged so far
    nextId,     \* the next uuid4 (every call gives a fresh one)
    ninv,       \* invocations started so far
    failed_at,  \* the stage whose operation raised or rejected, "none" otherwise
    prev,       \* the invocation before this one: [kind, key, ok, n, processing_id, puts0, written]
    stages,     \* the stages this invocation has performed, in order
    tables0,    \* the destination database as it was when this invocation began
    \* ---- app.py lines 128-129: the table name derived for two object keys
    nkey,       \* the two keys: <<key, key>>
    nnames,     \* the names derived so far, nnames[i] for nkey[i]
    \* ---- app.py: one request to POST /process
    request,    \* the request's body: [kind, data]
    apc,        \* where process_file is: recv, processing, answered
    http,       \* the response: [status, body]
    \* ---- app.py: the threads of one worker process calling get_db_connection
    cpc,        \* thread -> idle, check, secret, create, extension
    ccalls,     \* calls of get_db_connection begun so far
    csecrets,   \* successful get_secret_value calls so far
    cengines,   \* engines create_engine has made so far
    cext,       \* the engines on which CREATE EXTENSION has succeeded
    chanded,    \* the engines get_db_connection has returned
    clast,      \* thread -> how its last call ended: none, returned, raised
    \* ---- app.py: workers in separate processes loading the same key
    wpc,        \* worker -> start, drop, create, chunk, done, failed
    wgdf,       \* worker -> its GeoDataFrame: [n, doc, processing_id]
    wtx,        \* worker -> its to_postgis transaction: [open, name, rows]
    ctable,     \* the destination table as committed: [exists, rows]
    lock,       \* the worker whose transaction holds the table's exclusive lock, or None
    overlap     \* TRUE once two to_postgis transactions were open at the same time

None == "None"

dvars == <<event, hpc, idx, attempts, started, hlog, response>>
vvars == <<geojson_data, vresult>>
pvars == <<store, nputs, db_engine, tables, tx, ppc, cur, gdf, result, plog,
           nextId, ninv, failed_at, prev, stages, tables0>>
nvars == <<nkey, nnames>>
avars == <<request, apc, http>>
cvars == <<cpc, ccalls, csecrets, cengines, cext, chanded, clast>>
wvars == <<wpc, wgdf, wtx, ctable, lock, overlap>>
xvars == <<nvars, avars, cvars, wvars>>
vars  == <<dvars, vvars, pvars, xvars>>

(***************************************************************************)
(* Character strings                                                       *)
(***************************************************************************)

\* str.lower() on one character (the characters the sample keys use).
LowerChar(c) ==
    CASE c = "G" -> "g"
      [] c = "E" -> "e"
      [] c = "O" -> "o"
      [] c = "J" -> "j"
      [] c = "S" -> "s"
      [] c = "N" -> "n"
      [] c = "L" -> "l"
      [] c = "A" -> "a"
      [] c = "B" -> "b"
      [] OTHER -> c

\* str.lower()
Lower(s) == [i \in 1..Len(s) |-> LowerChar(s[i])]

\* str.endswith(suffix)
EndsWith(s, suffix) ==
    /\ Len(s) >= Len(suffix)
    /\ SubSeq(s, Len(s) - Len(suffix) + 1, Len(s)) = suffix

\* `sub in s` for strings: sub occurs in s as a contiguous substring.
Contains(s, sub) ==
    \E i \in 1..(Len(s) - Len(sub) + 1) : SubSeq(s, i, i + Len(sub) - 1) = sub

HexDigits == {"0", "1", "2", "3", "4", "5", "6", "7", "8", "9",
              "a", "b", "c", "d", "e", "f", "A", "B", "C", "D", "E", "F"}

\* The character a %XX escape stands for (the escapes the sample keys use;
\* any other pair of hex digits decodes to some character outside the
\* alphabet of the keys, written "?").
HexChar(h1, h2) ==
    CASE h1 = "2" /\ h2 \in {"e", "E"} -> "."
      [] h1 = "2" /\ h2 \in {"f", "F"} -> "/"
      [] h1 = "2" /\ h2 = "0" -> " "
      [] OTHER -> "?"

\* urllib.parse.unquote_plus: '+' becomes ' ', then every %XX with two hex
\* digits becomes the character it encodes; a '%' not followed by two hex
\* digits is kept.
RECURSIVE unquote_from(_, _)
unquote_from(s, i) ==
    IF i > Len(s) THEN <<>>
    ELSE IF s[i] = "%" /\ i + 2 <= Len(s) /\ s[i+1] \in HexDigits /\ s[i+2] \in HexDigits
         THEN <<HexChar(s[i+1], s[i+2])>> \o unquote_from(s, i + 3)
         ELSE <<(IF s[i] = "+" THEN " " ELSE s[i])>> \o unquote_from(s, i + 1)

unquote_plus(s) == unquote_from(s, 1)

(***************************************************************************)
(* s3_processor.py                                                         *)
(***************************************************************************)

DotGeojson == <<".", "g", "e", "o", "j", "s", "o", "n">>

\* The extension test of handler (line 36) and of validate_geojson_key (line 150).
IsGeojsonKey_anycase(key) == EndsWith(key, DotGeojson)

IsGeojsonKey(key) == EndsWith(Lower(key), DotGeojson)

system_folders ==
    << <<"_", "s", "y", "s", "t", "e", "m">>,
       <<".", "t", "m", "p">>,
       <<"l", "o", "g", "s">>,
       <<"b", "a", "c", "k", "u", "p", "s">> >>

\* validate_geojson_key(key): <<ok, message>>. The function is defined in the
\* lambda module; handler does not call it.
validate_geojson_key(key) ==
    IF ~IsGeojsonKey(key) THEN <<FALSE, <<"Not a GeoJSON file", None>> >>
    ELSE LET hits == {f \in 1..Len(system_folders) : Contains(Lower(key), system_folders[f])}
         IN IF hits # {}
            THEN <<FALSE, <<"File in system folder", CHOOSE f \in hits : \A g \in hits : f <= g>> >>
            ELSE <<TRUE, <<"Valid GeoJSON file", None>> >>

\* The object keys of the sample notifications, as S3 sends them.
KeyA      == <<"a">> \o DotGeojson                         \* a.geojson
KeyUpper  == <<"b", ".", "G", "e", "o", "J", "S", "O", "N">>   \* b.GeoJSON
KeyTxt    == <<"c", ".", "t", "x", "t">>                   \* c.txt
KeyLogs   == <<"l", "o", "g", "s", "%", "2", "F", "d">> \o DotGeojson   \* logs%2Fd.geojson
KeyEnc    == <<"e", "%", "2", "E", "g", "e", "o", "j", "s", "o", "n">>  \* e%2Egeojson
EventKeys == {KeyA, KeyUpper, KeyTxt, KeyLogs, KeyEnc}
Buckets   == {"bkt1", "bkt2"}

MaxBatch == 3

Notifications == [bucket : Buckets, key : EventKeys]

Batches == UNION {[1..n -> Notifications] : n \in 0..MaxBatch}

\* What ecs_client.run_task can do: return a task, raise (also: a missing
\* environment variable raises in run_ecs_task, lines 71-74), or return a
\* response whose 'failures' list is not empty.
EcsOutcomes == {"ok", "raise", "failures"}

\* record['s3']['bucket']['name'] and unquote_plus(record['s3']['object']['key'])
RecBucket(i) == event[i].bucket
RecKey(i)    == unquote_plus(event[i].key)

DispatchInit ==
    /\ event \in Batches
    /\ hpc = "loop"
    /\ idx = 1
    /\ attempts = <<>>
    /\ started = <<>>
    /\ hlog = <<>>
    /\ response = None

\* Lines 28-38: the record is not a GeoJSON file: log and continue.
HandlerSkip ==
    /\ hpc = "loop"
    /\ idx <= Len(event)
    /\ ~IsGeojsonKey(RecKey(idx))
    /\ hlog' = hlog \o << [level |-> "info", msg |-> <<"Processing file", idx>>],
                          [level |-> "info", msg |-> <<"Skipping non-GeoJSON file", idx>>] >>
    /\ idx' = idx + 1
    /\ UNCHANGED <<event, hpc, attempts, started, response>>
    /\ UNCHANGED <<vvars, pvars, xvars>>

\* Lines 40-43 with run_ecs_task (65-141) returning: the task is started with
\* S3_BUCKET and S3_KEY bound to the record's bucket and decoded key.
HandlerLaunch ==
    /\ hpc = "loop"
    /\ idx <= Len(event)
    /\ IsGeojsonKey(RecKey(idx))
    /\ attempts' = Append(attempts, [rec |-> idx, bucket |-> RecBucket(idx), key |-> RecKey(idx), outcome |-> "ok"])
    /\ started' = Append(started, [bucket |-> RecBucket(idx), key |-> RecKey(idx)])
    /\ hlog' = hlog \o << [level |-> "info", msg |-> <<"Processing file", idx>>],
                          [level |-> "info", msg |-> <<"ECS task started successfully", idx>>],
                          [level |-> "info", msg |-> <<"ECS task started", idx>>] >>
    /\ idx' = idx + 1
    /\ UNCHANGED <<event, hpc, response>>
    /\ UNCHANGED <<vvars, pvars, xvars>>

\* Where handler goes after run_ecs_task raised: the exception leaves the for
\* loop, the except clause of lines 53-62 logs it and handler returns 500.
AfterLaunchFailure(i) ==
    /\ hpc' = "done"
    /\ idx' = i
    /\ response' = [statusCode |-> 500, body |-> [error |-> <<"launch failed", i>>]]

\* Lines 40-41 with run_ecs_task raising: run_task itself raised, or the
\* response carried 'failures' (lines 129-133, logged by run_ecs_task).
HandlerLaunchFails ==
    /\ hpc = "loop"
    /\ idx <= Len(event)
    /\ IsGeojsonKey(RecKey(idx))
    /\ \E o \in EcsOutcomes \ {"ok"} :
          /\ attempts' = Append(attempts, [rec |-> idx, bucket |-> RecBucket(idx), key |-> RecKey(idx), outcome |-> o])
          /\ hlog' = hlog \o << [level |-> "info", msg |-> <<"Processing file", idx>>] >>
                          \o (IF o = "failures"
                              THEN << [level |-> "error", msg |-> <<"ECS task failed to start", idx>>] >>
                              ELSE <<>>)
                          \o << [level |-> "error", msg |-> <<"Error processing S3 event", idx>>] >>
    /\ AfterLaunchFailure(idx)
    /\ UNCHANGED <<event, started>>
    /\ UNCHANGED <<vvars, pvars, xvars>>

\* Lines 45-51: the loop is over: the 200 report, whose body holds the message
\* 'Successfully processed {len(event["Records"])} files' and the request id.
HandlerReturn ==
    /\ hpc = "loop"
    /\ idx > Len(event)
    /\ hpc' = "done"
    /\ response' = [statusCode |-> 200,
                    body |-> [message |-> <<"Successfully processed files", Len(event)>>]]
    /\ UNCHANGED <<event, idx, attempts, started, hlog>>
    /\ UNCHANGED <<vvars, pvars, xvars>>


(***************************************************************************)
(* JSON values (what json.loads returns)                                   *)
(*   None  [t |-> "null"]          str   [t |-> "str",  v |-> s]           *)
(*   dict  [t |-> "dict", v |-> f] with f a function on the keys present   *)
(*   list  [t |-> "list", v |-> runs]: the list in run-length form, a      *)
(*         sequence of [elem, n] standing for n >= 1 copies of elem in a   *)
(*         row, so that a list of thousands of features stays small.       *)
(***************************************************************************)

JNull     == [t |-> "null"]
JStr(s)   == [t |-> "str", v |-> s]
JDict(f)  == [t |-> "dict", v |-> f]
JList(rs) == [t |-> "list", v |-> rs]

\* The dict with the given <<key, value>> pairs.
Obj(pairs) == [k \in {p[1] : p \in pairs} |-> (CHOOSE p \in pairs : p[1] = k)[2]]

isinstance_dict(x) == x.t = "dict"
isinstance_list(x) == x.t = "list"

\* d.get(k): the value at k, None when the key is absent.
get(d, k) == IF k \in DOMAIN d.v THEN d.v[k] ELSE JNull

\* x == 'literal' for a JSON value x.
EqStr(x, s) == x.t = "str" /\ x.v = s

\* len(list)
RECURSIVE RunsLen(_, _)
RunsLen(rs, r) == IF r > Len(rs) THEN 0 ELSE rs[r].n + RunsLen(rs, r + 1)

len(x) == RunsLen(x.v, 1)

(***************************************************************************)
(* app.py: GeoJSONProcessor.validate_geojson                               *)
(***************************************************************************)

\* A null geometry counted as a missing one.
geometry_missing_or_null(feature) ==
    \/ "geometry" \notin DOMAIN feature.v
    \/ feature.v["geometry"].t = "null"

\* Line 90: 'geometry' not in feature
geometry_missing(feature) == "geometry" \notin DOMAIN feature.v

\* The loop with the geometry test before the type test.
RECURSIVE validate_features_geometry_first(_, _, _)
validate_features_geometry_first(features, r, i) ==
    IF r > Len(features.v) THEN <<TRUE, <<"Valid GeoJSON", None>> >>
    ELSE LET feature == features.v[r].elem IN
         IF ~isinstance_dict(feature)
         THEN <<FALSE, <<"Feature is not an object", i>> >>
         ELSE IF geometry_missing(feature)
         THEN <<FALSE, <<"Feature missing geometry", i>> >>
         ELSE IF ~EqStr(get(feature, "type"), "Feature")
         THEN <<FALSE, <<"Feature type is not 'Feature'", i>> >>
         ELSE validate_features_geometry_first(features, r + 1, i + features.v[r].n)

\* Lines 83-93, the for loop over enumerate(features): r is the run the loop
\* is at and i the index (from 0) of the first element of that run; the
\* elements of a run are equal, so the first one decides for the run.
RECURSIVE validate_features(_, _, _)
validate_features(features, r, i) ==
    IF r > Len(features.v) THEN <<TRUE, <<"Valid GeoJSON", None>> >>
    ELSE LET feature == features.v[r].elem IN
         IF ~isinstance_dict(feature)
         THEN <<FALSE, <<"Feature is not an object", i>> >>
         ELSE IF ~EqStr(get(feature, "type"), "Feature")
         THEN <<FALSE, <<"Feature type is not 'Feature'", i>> >>
         ELSE IF geometry_missing(feature)
         THEN <<FALSE, <<"Feature missing geometry", i>> >>
         ELSE validate_features(features, r + 1, i + features.v[r].n)

\* The check of lines 79-80 left out.
EmptyCheck_missing(features) == FALSE

\* Lines 79-80: len(features) == 0
EmptyCheck(features) == len(features) = 0

\* Lines 63-96: <<is_valid, message>>. No operation in the try block can
\* raise on a JSON value, so the except clause of lines 95-96 is never taken.
validate_geojson(data) ==
    IF ~isinstance_dict(data)
    THEN <<FALSE, <<"GeoJSON must be a JSON object", None>> >>
    ELSE IF ~EqStr(get(data, "type"), "FeatureCollection")
    THEN <<FALSE, <<"Must be a FeatureCollection", None>> >>
    ELSE IF "features" \notin DOMAIN data.v
    THEN <<FALSE, <<"No features found", None>> >>
    ELSE LET features == data.v["features"] IN
         IF ~isinstance_list(features)
         THEN <<FALSE, <<"Features must be a list", None>> >>
         ELSE IF EmptyCheck(features)
         THEN <<FALSE, <<"No features in collection", None>> >>
         ELSE validate_features(features, 1, 0)

\* ---- the inputs of SpecValidate
MaxRuns == 2

RunLens == {1, 1000}

Point == JDict(Obj({<<"type", JStr("Point")>>}))

Elems ==
    {JStr("x")} \cup
    {JDict(Obj(ty \cup ge \cup pr)) :
        ty \in {{}, {<<"type", JStr("Feature")>>}, {<<"type", JStr("Point")>>}},
        ge \in {{}, {<<"geometry", JNull>>}, {<<"geometry", Point>>}},
        pr \in {{}, {<<"properties", JDict(Obj({<<"name", JStr("x")>>}))>>}}}

Runs == [elem : Elems, n : RunLens]

FeatureLists == UNION {[1..k -> Runs] : k \in 0..MaxRuns}

ValDocs ==
    {JNull, JStr("x"), JList(<<>>)} \cup
    {JDict(Obj(ty \cup fe)) :
        ty \in {{}, {<<"type", JStr("FeatureCollection")>>}, {<<"type", JStr("Feature")>>}},
        fe \in {{}, {<<"features", JStr("x")>>}} \cup {{<<"features", JList(l)>>} : l \in FeatureLists}}

ValidateInit ==
    /\ geojson_data \in ValDocs
    /\ vresult = <<>>

\* One call of validate_geojson; it reads its argument and nothing else.
Validate ==
    /\ vresult = <<>>
    /\ vresult' = validate_geojson(geojson_data)
    /\ UNCHANGED geojson_data
    /\ UNCHANGED <<dvars, pvars, xvars>>

(***************************************************************************)
(* app.py: GeoJSONProcessor.process_geojson_file and what it works on      *)
(***************************************************************************)

MaxInvocations == 2

MaxPuts == 1

\* chunksize=1000 of the to_postgis call
chunksize == 1000

\* [:63], the PostgreSQL table name limit
NameLimit == 63

ProcBucket == "bkt1"

KeyRegionSlash == <<"r", "e", "g", "i", "o", "n", "/", "a">> \o DotGeojson   \* region/a.geojson
ProcKeys == {KeyRegionSlash}

\* str.replace(old, new) for one-character old and new
Replace(s, old, new) == [i \in 1..Len(s) |-> IF s[i] = old THEN new ELSE s[i]]

\* s[:n]
Prefix(s, n) == SubSeq(s, 1, IF Len(s) < n THEN Len(s) ELSE n)

\* Lines 128-129 without the [:63] of line 129.
table_name_untruncated(key) ==
    Lower(<<"g", "e", "o", "j", "s", "o", "n", "_">>
          \o Replace(Replace(Replace(key, "/", "_"), ".", "_"), "-", "_"))

\* Lines 128-129: the table name of a key.
table_name(key) ==
    Prefix(Lower(<<"g", "e", "o", "j", "s", "o", "n", "_">>
                 \o Replace(Replace(Replace(key, "/", "_"), ".", "_"), "-", "_")),
           NameLimit)

TableNames == {table_name(k) : k \in ProcKeys}

\* ---- the objects of the bucket
Feat(fields) == JDict(Obj({<<"type", JStr("Feature")>>} \cup fields))

FeatureCollection(runs) ==
    JDict(Obj({<<"type", JStr("FeatureCollection")>>, <<"features", JList(runs)>>}))

\* Scenario A: one Point feature with properties {"name": "x"}.
DocOne == FeatureCollection(<< [elem |-> Feat({<<"geometry", Point>>,
                                                <<"properties", JDict(Obj({<<"name", JStr("x")>>}))>>}),
                                n |-> 1] >>)
\* 2500 features: three chunks of to_postgis.
DocBig == FeatureCollection(<< [elem |-> Feat({<<"geometry", Point>>}), n |-> 2500] >>)
\* Scenario B: {"type":"FeatureCollection","features":[]}
DocEmpty == FeatureCollection(<<>>)
\* A feature without the geometry key after a good one.
DocNoGeom == FeatureCollection(<< [elem |-> Feat({<<"geometry", JNull>>}), n |-> 1],
                                  [elem |-> Feat({}), n |-> 1] >>)
SampleDocs == {DocOne, DocBig, DocEmpty, DocNoGeom}

Missing == [kind |-> "missing", doc |-> JNull]
Contents ==
    {Missing, [kind |-> "badutf8", doc |-> JNull], [kind |-> "badjson", doc |-> JNull]}
    \cup {[kind |-> "json", doc |-> d] : d \in SampleDocs}

\* ---- values of the locals
NoResult == [ret |-> "none", ok |-> FALSE, msg |-> <<"", None>>]
NoGdf    == [n |-> 0, doc |-> JNull, processing_id |-> 0]
NoTx     == [open |-> FALSE, name |-> <<>>, rows |-> EmptyBag]
NoTable  == [exists |-> FALSE, rows |-> EmptyBag]
NoPrev   == [kind |-> "none", key |-> <<>>, ok |-> FALSE, n |-> 0, processing_id |-> 0, puts0 |-> 0,
             written |-> 0]

Returned(ok, msg) == [ret |-> "returned", ok |-> ok, msg |-> msg]
Raised(exc)       == [ret |-> "raised", ok |-> FALSE, msg |-> <<exc.type, exc.cause>>]

Exc(type, cause, stage) == [type |-> type, cause |-> cause, stage |-> stage]

\* Only the clause of lines 143-146: any other exception leaves the function.
except_clauses_json_only(exc) ==
    IF exc.type = "JSONDecodeError"
    THEN [result |-> Returned(FALSE, <<"Invalid JSON format", exc.cause>>),
          log |-> << <<"error", "Invalid JSON format">> >>]
    ELSE [result |-> Raised(exc), log |-> <<>>]

\* Lines 143-150: the two except clauses of process_geojson_file; each logs
\* the message and returns (False, message).
except_clauses(exc) ==
    IF exc.type = "JSONDecodeError"
    THEN [result |-> Returned(FALSE, <<"Invalid JSON format", exc.cause>>),
          log |-> << <<"error", "Invalid JSON format">> >>]
    ELSE [result |-> Returned(FALSE, <<"Error processing file", exc.cause>>),
          log |-> << <<"error", "Error processing file">> >>]

\* Line 112 with the test dropped: processing goes on whatever the validator said.
Rejected_never(is_valid) == FALSE

\* Line 112: if not is_valid
Rejected(is_valid) == ~is_valid

\* gpd.read_file(f"s3://{bucket}/{key}") (line 117) reads the object again.
\* It yields one row per feature of a FeatureCollection whose 'features' is
\* a list; for any other content it raises.
GdalReadable(content) ==
    /\ content.kind = "json"
    /\ isinstance_dict(content.doc)
    /\ EqStr(get(content.doc, "type"), "FeatureCollection")
    /\ "features" \in DOMAIN content.doc.v
    /\ isinstance_list(content.doc.v["features"])

\* A row of the GeoDataFrame: the geometry and properties of a feature of doc,
\* and the metadata columns of lines 120-122 (processed_at left out).
Row(key, g) == [file_source |-> key, processing_id |-> g.processing_id, doc |-> g.doc]

\* n copies of row r
Copies(r, n) == IF n = 0 THEN EmptyBag ELSE [x \in {r} |-> n]

Min(a, b) == IF a < b THEN a ELSE b

\* if_exists='append': the rows already in the table stay.
if_exists_append(tbl) == tbl.rows

\* if_exists='replace' (line 135): to_postgis drops the table and creates it
\* anew, inside its transaction, before it inserts: the new table starts empty.
if_exists_replace(tbl) == EmptyBag

\* Every chunk committed as it is written (no enclosing transaction).
ChunkVisible_autocommit(tbl, txrows) == [exists |-> TRUE, rows |-> txrows]

\* to_postgis (lines 132-138) drops, creates and inserts every chunk inside
\* one database transaction (geopandas: `with con.begin()`), so what other
\* sessions see of the table while chunks are written is the table as it was.
ChunkVisible(tbl, txrows) == tbl

\* get_db_connection (lines 35-61) with outcome o, from the cached engine e:
\* the engine it leaves cached, whether it raised, and what it logged. Line 49
\* assigns self.db_engine before the extension step of lines 52-54.
DbOutcomes == {"ok", "secret_fails", "engine_fails", "extension_fails"}

get_db_connection(e, o) ==
    IF e # None THEN [engine |-> e, raised |-> FALSE, log |-> <<>>]
    ELSE IF o = "ok"
    THEN [engine |-> "engine", raised |-> FALSE, log |-> << <<"info", "Database connection established">> >>]
    ELSE [engine |-> (IF o = "extension_fails" THEN "engine" ELSE None),
          raised |-> TRUE,
          log |-> << <<"error", "Failed to get database connection">> >>]

ProcInit ==
    /\ store \in [ProcKeys -> Contents]
    /\ nputs = 0
    /\ db_engine = None
    /\ tables = [t \in TableNames |-> NoTable]
    /\ tx = NoTx
    /\ ppc = "idle"
    /\ cur = [bucket |-> ProcBucket, key |-> <<>>, puts0 |-> 0]
    /\ gdf = NoGdf
    /\ result = NoResult
    /\ plog = <<>>
    /\ nextId = 1
    /\ ninv = 0
    /\ failed_at = "none"
    /\ prev = NoPrev
    /\ stages = <<>>
    /\ tables0 = [t \in TableNames |-> NoTable]

\* The except clauses take over: log, return (False, message).
Fail(exc) ==
    /\ result' = except_clauses(exc).result
    /\ plog' = plog \o except_clauses(exc).log
    /\ failed_at' = exc.stage
    /\ ppc' = "done"

\* Another object is uploaded under a key (or the object is deleted).
S3Put ==
    /\ nputs < MaxPuts
    /\ \E k \in ProcKeys, c \in Contents :
          /\ c # store[k]
          /\ store' = [store EXCEPT ![k] = c]
    /\ nputs' = nputs + 1
    /\ UNCHANGED <<db_engine, tables, tx, ppc, cur, gdf, result, plog, nextId, ninv,
                   failed_at, prev, stages, tables0, geojson_data, vresult>>
    /\ UNCHANGED <<dvars, xvars>>

\* Lines 98-100: process_geojson_file(bucket, key) is called.
process_geojson_file(bucket, key) ==
    /\ ppc \in {"idle", "done"}
    /\ ninv < MaxInvocations
    /\ cur' = [bucket |-> bucket, key |-> key, puts0 |-> nputs]
    /\ prev' = IF ppc = "done"
               THEN [kind |-> "returned", key |-> cur.key, ok |-> result.ok, n |-> gdf.n,
                     processing_id |-> gdf.processing_id, puts0 |-> cur.puts0, written |-> 0]
               ELSE prev
    /\ stages' = <<>>
    /\ tables0' = tables
    /\ ninv' = ninv + 1
    /\ ppc' = "fetch"
    /\ result' = NoResult
    /\ gdf' = NoGdf
    /\ plog' = << <<"info", "Processing file">> >>
    /\ failed_at' = "none"
    /\ geojson_data' = JNull
    /\ vresult' = <<>>
    /\ UNCHANGED <<store, nputs, db_engine, tables, tx, nextId>>

\* The worker is asked to process an object of the bucket.
ProcStart ==
    /\ \E k \in ProcKeys : process_geojson_file(ProcBucket, k)
    /\ UNCHANGED <<dvars, xvars>>

\* Line 104: get_object raises (no such object, or S3 cannot be reached).
ProcFetchFails ==
    /\ ppc = "fetch"
    /\ Fail(Exc("ClientError",
                IF store[cur.key].kind = "missing" THEN "NoSuchKey" ELSE "EndpointConnectionError",
                "fetch"))
    /\ stages' = <<"fetch">>
    /\ UNCHANGED <<store, nputs, db_engine, tables, tx, cur, gdf, nextId, ninv, prev, tables0,
                   geojson_data, vresult>>
    /\ UNCHANGED <<dvars, xvars>>

\* Lines 104-114: get_object returns the object; decode, json.loads and
\* validate_geojson follow without further input.
ProcFetch ==
    /\ ppc = "fetch"
    /\ store[cur.key].kind # "missing"
    /\ LET content == store[cur.key] IN
       \/ /\ content.kind = "badutf8"
          /\ Fail(Exc("UnicodeDecodeError", "invalid start byte", "decode"))
          /\ stages' = <<"fetch", "decode">>
          /\ UNCHANGED <<geojson_data, vresult>>
       \/ /\ content.kind = "badjson"
          /\ Fail(Exc("JSONDecodeError", "Expecting value", "parse"))
          /\ stages' = <<"fetch", "decode", "parse">>
          /\ UNCHANGED <<geojson_data, vresult>>
       \/ /\ content.kind = "json"
          /\ geojson_data' = content.doc
          /\ vresult' = validate_geojson(content.doc)
          /\ stages' = <<"fetch", "decode", "parse", "validate">>
          /\ IF Rejected(vresult'[1])
             THEN /\ plog' = Append(plog, <<"error", "Invalid GeoJSON">>)
                  /\ result' = Returned(FALSE, vresult'[2])
                  /\ failed_at' = "validate"
                  /\ ppc' = "done"
             ELSE /\ ppc' = "read"
                  /\ UNCHANGED <<plog, result, failed_at>>
    /\ UNCHANGED <<store, nputs, db_engine, tables, tx, cur, gdf, nextId, ninv, prev, tables0>>
    /\ UNCHANGED <<dvars, xvars>>

\* Lines 117-122: gpd.read_file reads the object from S3 a second time; the
\* metadata columns are added, processing_id a fresh uuid4.
ProcRead ==
    /\ ppc = "read"
    /\ \/ /\ Fail(Exc("DriverError",
                      IF store[cur.key].kind = "missing" THEN "NoSuchKey" ELSE "read failed",
                      "read"))
          /\ UNCHANGED <<gdf, nextId>>
       \/ /\ GdalReadable(store[cur.key])
          /\ gdf' = [n |-> len(store[cur.key].doc.v["features"]),
                     doc |-> store[cur.key].doc,
                     processing_id |-> nextId]
          /\ nextId' = nextId + 1
          /\ ppc' = "connect"
          /\ UNCHANGED <<result, plog, failed_at>>
    /\ stages' = Append(stages, "read")
    /\ UNCHANGED <<store, nputs, db_engine, tables, tx, cur, ninv, prev, tables0,
                   geojson_data, vresult>>
    /\ UNCHANGED <<dvars, xvars>>

\* Lines 124-129: get_db_connection, then the table name.
ProcConnect ==
    /\ ppc = "connect"
    /\ \E o \in DbOutcomes :
          LET r == get_db_connection(db_engine, o) IN
          /\ db_engine' = r.engine
          /\ IF r.raised
             THEN /\ result' = except_clauses(Exc("OperationalError", o, "connect")).result
                  /\ plog' = plog \o r.log \o except_clauses(Exc("OperationalError", o, "connect")).log
                  /\ failed_at' = "connect"
                  /\ ppc' = "done"
                  /\ stages' = Append(stages, "connect")
             ELSE /\ plog' = plog \o r.log
                  /\ ppc' = "load"
                  /\ stages' = stages \o <<"connect", "derive">>
                  /\ UNCHANGED <<result, failed_at>>
    /\ UNCHANGED <<store, nputs, tables, tx, cur, gdf, nextId, ninv, prev, tables0,
                   geojson_data, vresult>>
    /\ UNCHANGED <<dvars, xvars>>

\* Lines 132-138, the start of to_postgis: a connection and a transaction are
\* opened and the table is dropped and created in it; or the store cannot be
\* reached.
ProcLoadBegin ==
    /\ ppc = "load"
    /\ \/ /\ Fail(Exc("OperationalError", "connection refused", "load"))
          /\ UNCHANGED tx
       \/ /\ tx' = [open |-> TRUE, name |-> table_name(cur.key),
                    rows |-> if_exists_replace(tables[table_name(cur.key)])]
          /\ ppc' = "chunk"
          /\ UNCHANGED <<result, plog, failed_at>>
    /\ stages' = Append(stages, "load")
    /\ UNCHANGED <<store, nputs, db_engine, tables, cur, gdf, nextId, ninv, prev, tables0,
                   geojson_data, vresult>>
    /\ UNCHANGED <<dvars, xvars>>

\* The rows of the GeoDataFrame written so far by this to_postgis call.
Written == CopiesIn(Row(cur.key, gdf), tx.rows)

\* to_postgis writes the next chunk of at most chunksize rows, or the write
\* fails: the transaction is rolled back and the exception reaches line 147.
ProcLoadChunk ==
    /\ ppc = "chunk"
    /\ Written < gdf.n
    /\ \/ /\ tx' = NoTx
          /\ Fail(Exc("OperationalError", "write failed", "load"))
          /\ UNCHANGED tables
       \/ /\ tx' = [tx EXCEPT !.rows = @ (+) Copies(Row(cur.key, gdf),
                                                    Min(chunksize, gdf.n - Written))]
          /\ tables' = [tables EXCEPT ![tx.name] = ChunkVisible(@, tx'.rows)]
          /\ UNCHANGED <<ppc, result, plog, failed_at>>
    /\ UNCHANGED <<store, nputs, db_engine, cur, gdf, nextId, ninv, prev, stages, tables0,
                   geojson_data, vresult>>
    /\ UNCHANGED <<dvars, xvars>>

\* Every chunk is written: the transaction commits and lines 140-141 return
\* (True, "Processed n features"); or the commit fails and nothing changes.
ProcLoadCommit ==
    /\ ppc = "chunk"
    /\ Written = gdf.n
    /\ tx' = NoTx
    /\ \/ /\ Fail(Exc("OperationalError", "commit failed", "load"))
          /\ UNCHANGED tables
       \/ /\ tables' = [tables EXCEPT ![tx.name] = [exists |-> TRUE, rows |-> tx.rows]]
          /\ result' = Returned(TRUE, <<"Processed features", gdf.n>>)
          /\ plog' = Append(plog, <<"info", "Successfully processed">>)
          /\ ppc' = "done"
          /\ UNCHANGED failed_at
    /\ UNCHANGED <<store, nputs, db_engine, cur, gdf, nextId, ninv, prev, stages, tables0,
                   geojson_data, vresult>>
    /\ UNCHANGED <<dvars, xvars>>

\* The hosting task is stopped while the invocation runs: the process and its
\* database session are gone, the open transaction is rolled back, and the
\* next invocation runs in a new process.
ProcAbandon ==
    /\ ppc \in {"fetch", "read", "connect", "load", "chunk"}
    /\ tx' = NoTx
    /\ db_engine' = None
    /\ ppc' = "idle"
    /\ prev' = [kind |-> "abandoned", key |-> cur.key, ok |-> FALSE, n |-> gdf.n,
                processing_id |-> gdf.processing_id, puts0 |-> cur.puts0,
                written |-> IF tx.open THEN Written ELSE 0]
    /\ UNCHANGED <<store, nputs, tables, cur, gdf, result, plog, nextId, ninv, failed_at,
                   stages, tables0, geojson_data, vresult>>
    /\ UNCHANGED <<dvars, xvars>>

(***************************************************************************)
(* app.py lines 128-129 on its own: the table names of two object keys     *)
(***************************************************************************)

\* Keys are a short tail, alone or after a long folder name.
MaxKeyLen == 2

KeyAlphabet == {"a", "A", "/", ".", "-"}

KeyTails == UNION {[1..n -> KeyAlphabet] : n \in 1..MaxKeyLen}

\* A folder name that brings 'geojson_' + key to one character below the limit.
LongFolder == [i \in 1..(NameLimit - 9) |-> "x"]

NameKeys == KeyTails \cup {LongFolder \o t : t \in KeyTails} \cup {KeyRegionSlash}

NameInit ==
    /\ nkey \in NameKeys \X NameKeys
    /\ nnames = <<>>

\* Lines 128-129 for the next of the two keys.
DeriveName ==
    /\ Len(nnames) < Len(nkey)
    /\ nnames' = Append(nnames, table_name(nkey[Len(nnames) + 1]))
    /\ UNCHANGED nkey
    /\ UNCHANGED <<dvars, vvars, pvars, avars, cvars, wvars>>

(***************************************************************************)
(* app.py: process_file, the handler of POST /process                      *)
(***************************************************************************)

NoRequest == [kind |-> "none", data |-> JNull]
NoHttp    == [status |-> 0, body |-> <<>>]

\* The bodies a client may send: none at all, text that is not JSON, or a
\* JSON value; an object may carry 'bucket' and 'key'.
Requests ==
    {[kind |-> "absent", data |-> JNull], [kind |-> "malformed", data |-> JNull]}
    \cup {[kind |-> "json", data |-> d] :
             d \in {JNull, JList(<<>>), JStr(<<"x">>)}
                   \cup {JDict(Obj(b \cup k)) :
                            b \in {{}, {<<"bucket", JStr(ProcBucket)>>}},
                            k \in {{}, {<<"key", JNull>>}, {<<"key", JStr(<<>>)>>},
                                   {<<"key", JStr(KeyRegionSlash)>>}}}}

\* Line 167: request.get_json() raises when the request has no JSON body or
\* the body does not parse (werkzeug's HTTPException is an Exception).
get_json_raises(req) == req.kind # "json"

\* Lines 168-169: data.get raises AttributeError unless data is a dict.
data_get_raises(data) == ~isinstance_dict(data)

\* Line 171: not key
not_key(key) == key.t = "null" \/ (key.t = "str" /\ key.v = <<>>)

\* jsonify(...), status
Response(status, body) == [status |-> status, body |-> body]

ApiInit ==
    /\ request \in Requests
    /\ apc = "recv"
    /\ http = NoHttp

\* Lines 166-172 and 190-192: the request is answered without a call of
\* process_geojson_file: an exception of lines 167-169 reaches the except
\* clause (500), a missing key gives 400.
ApiReject ==
    /\ apc = "recv"
    /\ IF get_json_raises(request)
       THEN http' = Response(500, [error |-> <<"get_json", request.kind>>])
       ELSE IF data_get_raises(request.data)
       THEN http' = Response(500, [error |-> <<"AttributeError", request.data.t>>])
       ELSE /\ not_key(get(request.data, "key"))
            /\ http' = Response(400, [error |-> <<"Missing key parameter", None>>])
    /\ apc' = "answered"
    /\ UNCHANGED request
    /\ UNCHANGED <<dvars, vvars, pvars, nvars, cvars, wvars>>

\* Lines 167-174: bucket and key are taken from the body and
\* process_geojson_file is called.
ApiProcess ==
    /\ apc = "recv"
    /\ ~get_json_raises(request)
    /\ ~data_get_raises(request.data)
    /\ ~not_key(get(request.data, "key"))
    /\ process_geojson_file(IF "bucket" \in DOMAIN request.data.v
                            THEN request.data.v["bucket"].v ELSE ProcBucket,
                            get(request.data, "key").v)
    /\ apc' = "processing"
    /\ UNCHANGED <<request, http>>
    /\ UNCHANGED <<dvars, nvars, cvars, wvars>>

\* Lines 176-188: process_geojson_file has returned (success, message).
ApiRespond ==
    /\ apc = "processing"
    /\ ppc = "done"
    /\ http' = IF result.ok
               THEN Response(200, [status |-> "success", message |-> result.msg,
                                   file |-> <<cur.bucket, cur.key>>])
               ELSE Response(400, [status |-> "error", message |-> result.msg,
                                   file |-> <<cur.bucket, cur.key>>])
    /\ apc' = "answered"
    /\ UNCHANGED request
    /\ UNCHANGED <<dvars, vvars, pvars, nvars, cvars, wvars>>

(***************************************************************************)
(* app.py: get_db_connection, step by step, called by the threads of one   *)
(* worker process (process_geojson_file line 125, status line 198)         *)
(***************************************************************************)

\* The request threads of the process; app.run (line 220) serves each
\* request in a thread of its own.
Threads == {"t1", "t2"}

MaxCalls == 3

pvars_rest == <<store, nputs, tables, tx, ppc, cur, gdf, result, plog,
                nextId, ninv, failed_at, prev, stages, tables0>>

\* The n-th engine create_engine returns.
Engine(n) == <<"engine", n>>

ConnInit ==
    /\ cpc = [t \in Threads |-> "idle"]
    /\ ccalls = 0
    /\ csecrets = 0
    /\ cengines = 0
    /\ cext = {}
    /\ chanded = {}
    /\ clast = [t \in Threads |-> "none"]

\* Lines 59-61: the except clause logs and raises again.
ConnRaise(t) ==
    /\ cpc' = [cpc EXCEPT ![t] = "idle"]
    /\ clast' = [clast EXCEPT ![t] = "raised"]

\* Line 35: a request thread calls get_db_connection.
ConnCall ==
    /\ ccalls < MaxCalls
    /\ \E t \in Threads :
          /\ cpc[t] = "idle"
          /\ cpc' = [cpc EXCEPT ![t] = "check"]
          /\ clast' = [clast EXCEPT ![t] = "none"]
    /\ ccalls' = ccalls + 1
    /\ UNCHANGED <<db_engine, csecrets, cengines, cext, chanded>>
    /\ UNCHANGED <<dvars, vvars, pvars_rest, nvars, avars, wvars>>

\* Lines 37-38: if self.db_engine: return self.db_engine
ConnCheck ==
    /\ \E t \in Threads :
          /\ cpc[t] = "check"
          /\ IF db_engine # None
             THEN /\ chanded' = chanded \cup {db_engine}
                  /\ cpc' = [cpc EXCEPT ![t] = "idle"]
                  /\ clast' = [clast EXCEPT ![t] = "returned"]
             ELSE /\ cpc' = [cpc EXCEPT ![t] = "secret"]
                  /\ UNCHANGED <<chanded, clast>>
    /\ UNCHANGED <<db_engine, ccalls, csecrets, cengines, cext>>
    /\ UNCHANGED <<dvars, vvars, pvars_rest, nvars, avars, wvars>>

\* Lines 41-47: get_secret_value and the connection string, or an exception.
ConnSecret ==
    /\ \E t \in Threads :
          /\ cpc[t] = "secret"
          /\ \/ /\ csecrets' = csecrets + 1
                /\ cpc' = [cpc EXCEPT ![t] = "create"]
                /\ UNCHANGED clast
             \/ /\ ConnRaise(t)
                /\ UNCHANGED csecrets
    /\ UNCHANGED <<db_engine, ccalls, cengines, cext, chanded>>
    /\ UNCHANGED <<dvars, vvars, pvars_rest, nvars, avars, wvars>>

\* Line 49: self.db_engine = create_engine(connection_string), or an exception.
ConnCreate ==
    /\ \E t \in Threads :
          /\ cpc[t] = "create"
          /\ \/ /\ cengines' = cengines + 1
                /\ db_engine' = Engine(cengines + 1)
                /\ cpc' = [cpc EXCEPT ![t] = "extension"]
                /\ UNCHANGED clast
             \/ /\ ConnRaise(t)
                /\ UNCHANGED <<cengines, db_engine>>
    /\ UNCHANGED <<ccalls, csecrets, cext, chanded>>
    /\ UNCHANGED <<dvars, vvars, pvars_rest, nvars, avars, wvars>>

\* Lines 52-54: CREATE EXTENSION IF NOT EXISTS postgis on a connection of
\* self.db_engine, or an exception (the database cannot be reached, the
\* role may not create extensions); self.db_engine stays as line 49 set it.
ConnExtension ==
    /\ \E t \in Threads :
          /\ cpc[t] = "extension"
          /\ \/ /\ cext' = cext \cup {db_engine}
                /\ cpc' = [cpc EXCEPT ![t] = "return"]
                /\ UNCHANGED clast
             \/ /\ ConnRaise(t)
                /\ UNCHANGED cext
    /\ UNCHANGED <<db_engine, ccalls, csecrets, cengines, chanded>>
    /\ UNCHANGED <<dvars, vvars, pvars_rest, nvars, avars, wvars>>

\* Lines 56-57: return self.db_engine
ConnReturn ==
    /\ \E t \in Threads :
          /\ cpc[t] = "return"
          /\ chanded' = chanded \cup {db_engine}
          /\ cpc' = [cpc EXCEPT ![t] = "idle"]
          /\ clast' = [clast EXCEPT ![t] = "returned"]
    /\ UNCHANGED <<db_engine, ccalls, csecrets, cengines, cext>>
    /\ UNCHANGED <<dvars, vvars, pvars_rest, nvars, avars, wvars>>

(***************************************************************************)
(* app.py lines 117-138 in several worker processes at once, all loading   *)
(* the same key into the same database                                     *)
(***************************************************************************)

Workers == {"w1", "w2"}

\* Line 122: uuid4 gives every run an identifier of its own.
uuid4(w) == IF w = "w1" THEN 1 ELSE 2

\* The rows an earlier run left in the table.
EarlierRun == [n |-> 1, doc |-> DocOne, processing_id |-> 0]

ConcInit ==
    /\ wpc = [w \in Workers |-> "start"]
    /\ wgdf \in {g \in [Workers -> [n : {1, 2500}, doc : {DocOne, DocBig}, processing_id : {1, 2}]] :
                    \A w \in Workers : /\ g[w].processing_id = uuid4(w)
                                        /\ g[w].n = len(g[w].doc.v["features"])}
    /\ wtx = [w \in Workers |-> NoTx]
    /\ ctable \in {NoTable, [exists |-> TRUE, rows |-> Copies(Row(KeyRegionSlash, EarlierRun), 1)]}
    /\ lock = None
    /\ overlap = FALSE

\* The worker's transaction ends without a commit: its lock is released.
Rollback(w) ==
    /\ wtx' = [wtx EXCEPT ![w] = NoTx]
    /\ lock' = IF lock = w THEN None ELSE lock
    /\ wpc' = [wpc EXCEPT ![w] = "failed"]

\* Lines 132-138, the start of to_postgis: a transaction is opened and the
\* table is looked up; or the database cannot be reached.
ConcBegin ==
    /\ \E w \in Workers :
          /\ wpc[w] = "start"
          /\ \/ /\ wpc' = [wpc EXCEPT ![w] = "failed"]
                /\ UNCHANGED <<wtx, overlap>>
             \/ /\ wtx' = [wtx EXCEPT ![w] = [open |-> TRUE, name |-> table_name(KeyRegionSlash),
                                               rows |-> EmptyBag]]
                /\ wpc' = [wpc EXCEPT ![w] = IF ctable.exists THEN "drop" ELSE "create"]
                /\ overlap' = (overlap \/ \E v \in Workers \ {w} : wtx[v].open)
    /\ UNCHANGED <<wgdf, ctable, lock>>
    /\ UNCHANGED <<dvars, vvars, pvars, nvars, avars, cvars>>

\* if_exists='replace' on a table that exists: DROP TABLE takes the table's
\* exclusive lock, which is held until the transaction ends; while another
\* transaction holds it the statement waits.
ConcDrop ==
    /\ \E w \in Workers :
          /\ wpc[w] = "drop"
          /\ lock = None
          /\ lock' = w
          /\ wpc' = [wpc EXCEPT ![w] = "create"]
    /\ UNCHANGED <<wgdf, wtx, ctable, overlap>>
    /\ UNCHANGED <<dvars, vvars, pvars, nvars, avars, cvars>>

\* CREATE TABLE: after the worker's own DROP it succeeds; without one it
\* waits for a transaction that is creating the table, fails when the table
\* exists by now, and succeeds otherwise.
ConcCreate ==
    /\ \E w \in Workers :
          /\ wpc[w] = "create"
          /\ lock \in {None, w}
          /\ IF lock = None /\ ctable.exists
             THEN Rollback(w)
             ELSE /\ lock' = w
                  /\ wtx' = [wtx EXCEPT ![w].rows = if_exists_replace(ctable)]
                  /\ wpc' = [wpc EXCEPT ![w] = "chunk"]
    /\ UNCHANGED <<wgdf, ctable, overlap>>
    /\ UNCHANGED <<dvars, vvars, pvars, nvars, avars, cvars>>

\* The rows of its GeoDataFrame the worker has written so far.
WrittenBy(w) == CopiesIn(Row(KeyRegionSlash, wgdf[w]), wtx[w].rows)

\* The next chunk of at most chunksize rows is written, or the write fails
\* (or the task is stopped) and the transaction is rolled back.
ConcChunk ==
    /\ \E w \in Workers :
          /\ wpc[w] = "chunk"
          /\ WrittenBy(w) < wgdf[w].n
          /\ \/ /\ Rollback(w)
                /\ UNCHANGED ctable
             \/ /\ wtx' = [wtx EXCEPT ![w].rows =
                               @ (+) Copies(Row(KeyRegionSlash, wgdf[w]),
                                            Min(chunksize, wgdf[w].n - WrittenBy(w)))]
                /\ ctable' = ChunkVisible(ctable, wtx'[w].rows)
                /\ UNCHANGED <<wpc, lock>>
    /\ UNCHANGED <<wgdf, overlap>>
    /\ UNCHANGED <<dvars, vvars, pvars, nvars, avars, cvars>>

\* Every chunk is written: the transaction commits, or the commit fails.
ConcCommit ==
    /\ \E w \in Workers :
          /\ wpc[w] = "chunk"
          /\ WrittenBy(w) = wgdf[w].n
          /\ \/ /\ Rollback(w)
                /\ UNCHANGED ctable
             \/ /\ ctable' = [exists |-> TRUE, rows |-> wtx[w].rows]
                /\ wtx' = [wtx EXCEPT ![w] = NoTx]
                /\ lock' = None
                /\ wpc' = [wpc EXCEPT ![w] = "done"]
    /\ UNCHANGED <<wgdf, overlap>>
    /\ UNCHANGED <<dvars, vvars, pvars, nvars, avars, cvars>>

(***************************************************************************)
(* Specifications                                                          *)
(***************************************************************************)

\* The parts that do not run under a specification.
DispatchIdle ==
    /\ event = <<>>
    /\ hpc = "off"
    /\ idx = 1
    /\ attempts = <<>>
    /\ started = <<>>
    /\ hlog = <<>>
    /\ response = None

ValidateIdle ==
    /\ geojson_data = JNull
    /\ vresult = <<>>

ProcIdle ==
    /\ store = [k \in ProcKeys |-> Missing]
    /\ nputs = 0
    /\ db_engine = None
    /\ tables = [t \in TableNames |-> NoTable]
    /\ tx = NoTx
    /\ ppc = "off"
    /\ cur = [bucket |-> ProcBucket, key |-> <<>>, puts0 |-> 0]
    /\ gdf = NoGdf
    /\ result = NoResult
    /\ plog = <<>>
    /\ nextId = 1
    /\ ninv = 0
    /\ failed_at = "none"
    /\ prev = NoPrev
    /\ stages = <<>>
    /\ tables0 = [t \in TableNames |-> NoTable]

NameIdle ==
    /\ nkey = <<>>
    /\ nnames = <<>>

ApiIdle ==
    /\ request = NoRequest
    /\ apc = "off"
    /\ http = NoHttp

ConnIdle ==
    /\ cpc = [t \in Threads |-> "off"]
    /\ ccalls = 0
    /\ csecrets = 0
    /\ cengines = 0
    /\ cext = {}
    /\ chanded = {}
    /\ clast = [t \in Threads |-> "none"]

ConcIdle ==
    /\ wpc = [w \in Workers |-> "off"]
    /\ wgdf = [w \in Workers |-> NoGdf]
    /\ wtx = [w \in Workers |-> NoTx]
    /\ ctable = NoTable
    /\ lock = None
    /\ overlap = FALSE

OthersIdle ==
    /\ NameIdle
    /\ ApiIdle
    /\ ConnIdle
    /\ ConcIdle

\* handler on one batch of notifications.
InitDispatch ==
    /\ DispatchInit
    /\ ValidateIdle
    /\ ProcIdle
    /\ OthersIdle

DispatchNext ==
    \/ HandlerSkip
    \/ HandlerLaunch
    \/ HandlerLaunchFails
    \/ HandlerReturn

SpecDispatch == InitDispatch /\ [][DispatchNext]_vars

\* validate_geojson on one JSON value.
InitValidate ==
    /\ ValidateInit
    /\ DispatchIdle
    /\ ProcIdle
    /\ OthersIdle

ValidateNext == Validate

SpecValidate == InitValidate /\ [][ValidateNext]_vars

\* One worker at a time calling process_geojson_file, uploads going on.
InitProc ==
    /\ ProcInit
    /\ ValidateIdle
    /\ DispatchIdle
    /\ OthersIdle

ProcNext ==
    \/ S3Put
    \/ ProcStart
    \/ ProcFetchFails
    \/ ProcFetch
    \/ ProcRead
    \/ ProcConnect
    \/ ProcLoadBegin
    \/ ProcLoadChunk
    \/ ProcLoadCommit
    \/ ProcAbandon

SpecProc == InitProc /\ [][ProcNext]_vars

\* The table names of two keys.
InitName ==
    /\ NameInit
    /\ DispatchIdle
    /\ ValidateIdle
    /\ ProcIdle
    /\ ApiIdle
    /\ ConnIdle
    /\ ConcIdle

NameNext == DeriveName

SpecName == InitName /\ [][NameNext]_vars

\* One request to POST /process and the invocation it starts.
InitApi ==
    /\ ApiInit
    /\ ProcInit
    /\ DispatchIdle
    /\ ValidateIdle
    /\ NameIdle
    /\ ConnIdle
    /\ ConcIdle

ApiNext ==
    \/ ApiReject
    \/ ApiProcess
    \/ ProcFetchFails
    \/ ProcFetch
    \/ ProcRead
    \/ ProcConnect
    \/ ProcLoadBegin
    \/ ProcLoadChunk
    \/ ProcLoadCommit
    \/ ApiRespond

SpecApi == InitApi /\ [][ApiNext]_vars

\* The threads of one worker process calling get_db_connection.
InitConn ==
    /\ ConnInit
    /\ DispatchIdle
    /\ ValidateIdle
    /\ ProcIdle
    /\ NameIdle
    /\ ApiIdle
    /\ ConcIdle

ConnNext ==
    \/ ConnCall
    \/ ConnCheck
    \/ ConnSecret
    \/ ConnCreate
    \/ ConnExtension
    \/ ConnReturn

SpecConn == InitConn /\ [][ConnNext]_vars

\* Several workers loading the same key at once.
InitConc ==
    /\ ConcInit
    /\ DispatchIdle
    /\ ValidateIdle
    /\ ProcIdle
    /\ NameIdle
    /\ ApiIdle
    /\ ConnIdle

ConcNext ==
    \/ ConcBegin
    \/ ConcDrop
    \/ ConcCreate
    \/ ConcChunk
    \/ ConcCommit

SpecConc == InitConc /\ [][ConcNext]_vars

(***************************************************************************)
(* The Event Dispatcher (SpecDispatch)                                     *)
(***************************************************************************)

\* C1: a launch failure for one qualifying notification never prevents the
\* dispatch of the others: once handler has returned, a launch was attempted
\* for every notification of the batch that passes the filter.
C1_LaunchFailureIsolated ==
    hpc = "done" =>
        \A j \in 1..Len(event) :
            IsGeojsonKey(RecKey(j)) => \E a \in 1..Len(attempts) : attempts[a].rec = j

\* The key ends with .geojson, whatever the case of its letters.
HasGeojsonExtension(key) ==
    /\ Len(key) >= Len(DotGeojson)
    /\ \A i \in 1..Len(DotGeojson) :
          LowerChar(key[Len(key) - Len(DotGeojson) + i]) = DotGeojson[i]

\* The runs due for the first n notifications: one per notification whose
\* decoded key has the extension, bound to its bucket and decoded key.
RECURSIVE QualifyingRuns(_)
QualifyingRuns(n) ==
    IF n = 0 THEN <<>>
    ELSE QualifyingRuns(n - 1) \o
         (IF HasGeojsonExtension(unquote_plus(event[n].key))
          THEN << [bucket |-> event[n].bucket, key |-> unquote_plus(event[n].key)] >>
          ELSE <<>>)

AllLaunchesOk == \A a \in 1..Len(attempts) : attempts[a].outcome = "ok"

\* C2: while every launch succeeds, the runs started are exactly one per
\* notification handled so far whose percent-decoded key ends with .geojson
\* (case-insensitively), bound to its bucket and key, and none for any other;
\* skipped keys do not make the batch an error (status 200); a batch of 3
\* whose second key is a .txt key starts exactly 2 runs.
C2_OneRunPerGeojsonKey ==
    AllLaunchesOk =>
        /\ started = QualifyingRuns(idx - 1)
        /\ hpc = "done" =>
              /\ idx = Len(event) + 1
              /\ response.statusCode = 200
              /\ (/\ Len(event) = 3
                  /\ HasGeojsonExtension(unquote_plus(event[1].key))
                  /\ event[2].key = KeyTxt
                  /\ HasGeojsonExtension(unquote_plus(event[3].key))) => Len(started) = 2

\* C2's case: a batch of 3 (an encoded key, a .txt key, an upper-case
\* extension) handled to the end with 2 runs started.
C2_Witness ==
    /\ hpc = "done"
    /\ Len(event) = 3
    /\ event[1].key = KeyEnc
    /\ event[2].key = KeyTxt
    /\ event[3].key = KeyUpper
    /\ event[1].bucket # event[3].bucket
    /\ Len(started) = 2
    /\ response.statusCode = 200

\* C3: no processing run is ever started for a key under a system folder of
\* the denylist (_system, .tmp, logs, backups).
C3_NoRunUnderSystemFolder ==
    \A r \in 1..Len(started) : validate_geojson_key(started[r].key)[1]

\* C4: the report handler returns states the notifications received, the
\* number dispatched, the number skipped and the launch failures, and they
\* agree with what handler did.
C4_ReportCounts ==
    hpc = "done" =>
        /\ {"total", "dispatched", "skipped", "failures"} \subseteq DOMAIN response.body
        /\ response.body.total = Len(event)
        /\ response.body.dispatched = Len(started)
        /\ response.body.skipped = Len(event) - Len(attempts)
        /\ response.body.failures = Len(attempts) - Len(started)

(***************************************************************************)
(* The Ingestion Orchestrator (SpecProc)                                   *)
(***************************************************************************)

TheTable == table_name(KeyRegionSlash)

Range(f) == {f[i] : i \in DOMAIN f}

\* The table holds exactly the n rows of the GeoDataFrame g read for key.
HoldsExactly(tbl, key, g) ==
    /\ tbl.exists
    /\ tbl.rows = Copies(Row(key, g), g.n)

\* C5: when the fetch fails, the content is not valid JSON (or not UTF-8), or
\* validate_geojson rejects the document, the invocation never reaches
\* to_postgis (nor reads the object again), opens no transaction and leaves
\* every table as it was when the invocation began, and it ends in a failure;
\* a document with an empty features list ends in the failure "No features
\* in collection".
C5_NoWriteOnEarlyFailure ==
    (\/ failed_at \in {"fetch", "decode", "parse"}
     \/ (vresult # <<>> /\ ~vresult[1]))
    => /\ "load" \notin Range(stages)
       /\ "read" \notin Range(stages)
       /\ ~tx.open
       /\ tables = tables0
       /\ ppc = "done"
       /\ result.ret = "returned"
       /\ ~result.ok
       /\ (vresult # <<>> /\ geojson_data = DocEmpty)
             => result.msg = <<"No features in collection", None>>

\* C5's case: the object was replaced by the empty collection after a first
\* run loaded the table; the second run fails and the table is as it was.
C5_Witness ==
    /\ ppc = "done"
    /\ vresult # <<>>
    /\ geojson_data = DocEmpty
    /\ ~result.ok
    /\ prev.kind = "returned"
    /\ prev.ok
    /\ tables[TheTable].exists
    /\ BagCardinality(tables[TheTable].rows) = prev.n

\* C6: two invocations in sequence for the same key whose object was not
\* replaced since the first began, the first a success: the second fails
\* only if S3 or the database failed it, and when it succeeds it reports the
\* same feature count, under another processing_id, and the table holds
\* exactly its rows (as many as the feature count, no row of the first run).
C6_ReprocessingIdempotent ==
    (/\ ppc = "done"
     /\ prev.kind = "returned"
     /\ prev.ok
     /\ prev.key = cur.key
     /\ prev.puts0 = nputs)
    => /\ result.ok \/ failed_at \in {"fetch", "read", "connect", "load"}
       /\ result.ok =>
             /\ result.msg = <<"Processed features", prev.n>>
             /\ gdf.n = prev.n
             /\ gdf.processing_id # prev.processing_id
             /\ HoldsExactly(tables[table_name(cur.key)], cur.key, gdf)
             /\ \A r \in BagToSet(tables[table_name(cur.key)].rows) :
                   r.processing_id # prev.processing_id

\* C6's case: the 2500 features loaded twice.
C6_Witness ==
    /\ ppc = "done"
    /\ prev.kind = "returned"
    /\ prev.ok
    /\ prev.key = cur.key
    /\ prev.puts0 = nputs
    /\ result.ok
    /\ prev.n = 2500
    /\ BagCardinality(tables[TheTable].rows) = 2500

C8_NeverRaises ==
    /\ result.ret # "raised"
    /\ \A i, j \in 1..Len(stages) : stages[i] = stages[j] => i = j
    /\ failed_at # "none" => ppc = "done"
    /\ ppc = "done" =>
          /\ result.ret = "returned"
          /\ result.ok \in BOOLEAN
          /\ result.ok <=> failed_at = "none"
          /\ result.ok => result.msg = <<"Processed features", gdf.n>>
          /\ ~result.ok => plog[Len(plog)][1] = "error"

\* C8's case: the database could not be reached by get_db_connection.
C8_Witness ==
    /\ ppc = "done"
    /\ failed_at = "connect"
    /\ result.ret = "returned"
    /\ ~result.ok
    /\ plog[Len(plog)][1] = "error"

\* C9: the failure returned names the stage that failed: "fetch error" for
\* the fetch, "invalid JSON" for the parse, the validator's reason for the
\* validation, "load error" for the load (the connection included), so that a
\* load failure can be told from a fetch failure.
C9_FailureNamesStage ==
    (ppc = "done" /\ ~result.ok) =>
        /\ failed_at = "fetch" => result.msg[1] = "fetch error"
        /\ failed_at = "parse" => result.msg[1] \in {"invalid JSON", "Invalid JSON format"}
        /\ failed_at = "validate" => result.msg = vresult[2]
        /\ failed_at \in {"connect", "load"} => result.msg[1] = "load error"

(***************************************************************************)
(* The Validator (SpecValidate)                                            *)
(***************************************************************************)

\* The element at index i (from 0) of a list in run-length form.
RECURSIVE ElemAt(_, _, _)
ElemAt(runs, r, i) ==
    IF i < runs[r].n THEN runs[r].elem ELSE ElemAt(runs, r + 1, i - runs[r].n)

NotAnObject(e)  == e.t # "dict"
WrongType(e, ty) ==
    \/ "type" \notin DOMAIN e.v
    \/ e.v["type"].t # "str"
    \/ e.v["type"].v # ty
NoGeometry(e)   == "geometry" \notin DOMAIN e.v

\* The document meets one of the conditions for rejection.
MustReject(d) ==
    \/ NotAnObject(d)
    \/ WrongType(d, "FeatureCollection")
    \/ "features" \notin DOMAIN d.v
    \/ d.v["features"].t # "list"
    \/ d.v["features"].v = <<>>
    \/ \E r \in 1..Len(d.v["features"].v) :
          LET e == d.v["features"].v[r].elem IN
          NotAnObject(e) \/ WrongType(e, "Feature") \/ NoGeometry(e)

\* The reason given is true of the document.
ReasonHolds(d, msg) ==
    CASE msg[1] = "GeoJSON must be a JSON object" -> NotAnObject(d)
      [] msg[1] = "Must be a FeatureCollection"   -> ~NotAnObject(d) /\ WrongType(d, "FeatureCollection")
      [] msg[1] = "No features found"             -> "features" \notin DOMAIN d.v
      [] msg[1] = "Features must be a list"       -> d.v["features"].t # "list"
      [] msg[1] = "No features in collection"     -> d.v["features"].v = <<>>
      [] msg[1] = "Feature is not an object" ->
            NotAnObject(ElemAt(d.v["features"].v, 1, msg[2]))
      [] msg[1] = "Feature type is not 'Feature'" ->
            LET e == ElemAt(d.v["features"].v, 1, msg[2]) IN ~NotAnObject(e) /\ WrongType(e, "Feature")
      [] msg[1] = "Feature missing geometry" ->
            LET e == ElemAt(d.v["features"].v, 1, msg[2]) IN ~NotAnObject(e) /\ NoGeometry(e)
      [] OTHER -> FALSE

\* C10: for every input that is not an object, whose type is not
\* "FeatureCollection", that has no features key, whose features is not a
\* list or is empty, or that has an element that is not an object, whose
\* type is not "Feature" or that lacks a geometry key, validate_geojson
\* returns (False, reason) with a reason that is true of the input ("No
\* features in collection" for an empty list); it returns a pair in every
\* case (it never raises).
C10_ValidatorRejects ==
    vresult # <<>> =>
        /\ Len(vresult) = 2
        /\ vresult[1] \in BOOLEAN
        /\ MustReject(geojson_data) =>
              /\ vresult[1] = FALSE
              /\ ReasonHolds(geojson_data, vresult[2])
        /\ (/\ ~NotAnObject(geojson_data)
            /\ ~WrongType(geojson_data, "FeatureCollection")
            /\ "features" \in DOMAIN geojson_data.v
            /\ geojson_data.v["features"] = JList(<<>>))
              => vresult = <<FALSE, <<"No features in collection", None>> >>

\* C10's case: a collection whose second run of features (index 1000 on)
\* lacks the geometry key.
C10_Witness ==
    /\ hpc = "off"
    /\ ppc = "off"
    /\ vresult = <<FALSE, <<"Feature missing geometry", 1000>> >>
    /\ MustReject(geojson_data)

\* Every element of the list is an object of type "Feature" with a geometry key.
AllWellFormed(runs) ==
    \A r \in 1..Len(runs) :
        LET e == runs[r].elem IN
        ~NotAnObject(e) /\ ~WrongType(e, "Feature") /\ ~NoGeometry(e)

\* C11: validate_geojson returns success for every FeatureCollection with a
\* non-empty features list whose elements are all objects of type "Feature"
\* with a geometry key, whatever the geometry (null included) and with or
\* without properties.
C11_ValidatorAccepts ==
    (/\ vresult # <<>>
     /\ ~NotAnObject(geojson_data)
     /\ ~WrongType(geojson_data, "FeatureCollection")
     /\ "features" \in DOMAIN geojson_data.v
     /\ geojson_data.v["features"].t = "list"
     /\ geojson_data.v["features"].v # <<>>
     /\ AllWellFormed(geojson_data.v["features"].v))
    => vresult = <<TRUE, <<"Valid GeoJSON", None>> >>

\* C11's case: 1000 features with a null geometry and no properties, then
\* one with a Point and properties: accepted.
C11_Witness ==
    /\ vresult # <<>>
    /\ vresult[1]
    /\ geojson_data = FeatureCollection(
          << [elem |-> Feat({<<"geometry", JNull>>}), n |-> 1000],
             [elem |-> Feat({<<"geometry", Point>>,
                             <<"properties", JDict(Obj({<<"name", JStr("x")>>}))>>}), n |-> 1] >>)

\* A top-level condition for rejection holds of the document.
TopLevelBad(d) ==
    \/ NotAnObject(d)
    \/ WrongType(d, "FeatureCollection")
    \/ "features" \notin DOMAIN d.v
    \/ d.v["features"].t # "list"
    \/ d.v["features"].v = <<>>

Offending(e) == NotAnObject(e) \/ WrongType(e, "Feature") \/ NoGeometry(e)

\* The first check an offending element fails, in the order not an object,
\* wrong type, missing geometry.
FirstFailing(e) ==
    IF NotAnObject(e) THEN "Feature is not an object"
    ELSE IF WrongType(e, "Feature") THEN "Feature type is not 'Feature'"
    ELSE "Feature missing geometry"

\* The index (from 0) of the first element of run r.
RECURSIVE StartIndex(_, _)
StartIndex(runs, r) == IF r = 1 THEN 0 ELSE StartIndex(runs, r - 1) + runs[r - 1].n

\* C16: validate_geojson stops at the first violation: a top-level violation
\* is reported without an element index; otherwise, when elements offend, the
\* reason names the lowest index of an offending element and the first check
\* that element fails (not an object, wrong type, missing geometry).
C16_FirstViolationReported ==
    vresult # <<>> =>
        /\ TopLevelBad(geojson_data) =>
              /\ ~vresult[1]
              /\ vresult[2][2] = None
              /\ vresult[2][1] \in {"GeoJSON must be a JSON object", "Must be a FeatureCollection",
                                    "No features found", "Features must be a list",
                                    "No features in collection"}
        /\ ~TopLevelBad(geojson_data) =>
              LET runs == geojson_data.v["features"].v
                  bad  == {r \in 1..Len(runs) : Offending(runs[r].elem)}
              IN bad # {} =>
                    LET r0 == CHOOSE r \in bad : \A q \in bad : r <= q
                    IN vresult = <<FALSE, <<FirstFailing(runs[r0].elem), StartIndex(runs, r0)>> >>

\* C16's case: 1000 good features, then an element that has neither the type
\* "Feature" nor a geometry: index 1000, reported for its type.
C16_Witness ==
    /\ vresult = <<FALSE, <<"Feature type is not 'Feature'", 1000>> >>
    /\ ~TopLevelBad(geojson_data)
    /\ Len(geojson_data.v["features"].v) = 2
    /\ ~Offending(geojson_data.v["features"].v[1].elem)
    /\ NoGeometry(geojson_data.v["features"].v[2].elem)

(***************************************************************************)
(* Claims about the orchestrator's stages and what it loads                *)
(***************************************************************************)

\* The stages of the invocation in which the object is read from S3.
S3Reads == {i \in DOMAIN stages : stages[i] \in {"fetch", "read"}}

\* The places of a stage in the invocation's trace.
PlacesOf(st) == {i \in DOMAIN stages : stages[i] = st}

\* C15: within one invocation the stages run in the order fetch, parse,
\* validate, derive, load, each at most once, and the source object is read
\* from the object store at most once.
C15_StagesOnce ==
    /\ \A st \in Range(stages) : Cardinality(PlacesOf(st)) = 1
    /\ \A i, j \in DOMAIN stages :
          (\/ (stages[i] = "fetch" /\ stages[j] \in {"parse", "validate", "derive", "load"})
           \/ (stages[i] = "parse" /\ stages[j] \in {"validate", "derive", "load"})
           \/ (stages[i] = "validate" /\ stages[j] \in {"derive", "load"})
           \/ (stages[i] = "derive" /\ stages[j] = "load")) => i < j
    /\ Cardinality(S3Reads) <= 1

\* C18: an invocation that returns success has loaded the rows of the
\* document validate_geojson accepted in it, also when the object was
\* overwritten meanwhile, and reports that document's feature count.
C18_OnlyValidatedLoaded ==
    (ppc = "done" /\ result.ok) =>
        /\ vresult # <<>>
        /\ vresult[1]
        /\ gdf.doc = geojson_data
        /\ result.msg = <<"Processed features", len(geojson_data.v["features"])>>
        /\ tables[table_name(cur.key)].rows =
              Copies([file_source |-> cur.key, processing_id |-> gdf.processing_id,
                      doc |-> geojson_data],
                     len(geojson_data.v["features"]))

(***************************************************************************)
(* Claims about the table name (SpecName)                                  *)
(***************************************************************************)

\* 'geojson_' followed by the key, character by character: '/', '.' and '-'
\* become '_', letters become lower-case; cut after 63 characters.
ExpectedName(key) ==
    LET pre  == <<"g", "e", "o", "j", "s", "o", "n", "_">>
        full == [i \in 1..(8 + Len(key)) |->
                    IF i <= 8 THEN pre[i]
                    ELSE IF key[i - 8] \in {"/", ".", "-"} THEN "_"
                    ELSE LowerChar(key[i - 8])]
    IN [i \in 1..Min(63, 8 + Len(key)) |-> full[i]]

GeojsonRegionAGeojson ==
    <<"g", "e", "o", "j", "s", "o", "n", "_", "r", "e", "g", "i", "o", "n", "_", "a", "_",
      "g", "e", "o", "j", "s", "o", "n">>

\* C12: the table name of a key is 'geojson_' followed by the key with '/',
\* '.' and '-' replaced by '_', lower-cased and cut to at most 63 characters;
\* the same key gives the same name, and 'region/a.geojson' gives
\* 'geojson_region_a_geojson'.
C12_TableNamePure ==
    /\ \A i \in 1..Len(nnames) :
          /\ nnames[i] = ExpectedName(nkey[i])
          /\ Len(nnames[i]) <= 63
          /\ nkey[i] = KeyRegionSlash => nnames[i] = GeojsonRegionAGeojson
    /\ (Len(nnames) = 2 /\ nkey[1] = nkey[2]) => nnames[1] = nnames[2]

\* C12's case: a key whose name is cut at 63 characters, and region/a.geojson.
C12_Witness ==
    /\ Len(nnames) = 2
    /\ 8 + Len(nkey[1]) > 63
    /\ Len(nnames[1]) = 63
    /\ nkey[2] = KeyRegionSlash
    /\ nnames[2] = GeojsonRegionAGeojson

\* C13: two different object keys never get the same table name.
C13_DistinctKeysDistinctNames ==
    (Len(nnames) = 2 /\ nkey[1] # nkey[2]) => nnames[1] # nnames[2]

(***************************************************************************)
(* Claims about POST /process (SpecApi)                                    *)
(***************************************************************************)

\* The body is absent or not a JSON object, or 'key' is missing or empty.
MalformedInput(req) ==
    \/ req.kind # "json"
    \/ req.data.t # "dict"
    \/ "key" \notin DOMAIN req.data.v
    \/ req.data.v["key"].t = "null"
    \/ req.data.v["key"].v = <<>>

\* C14: POST /process answers OK with status "success" exactly when
\* process_geojson_file succeeded, and answers with a 4xx status when the
\* input is malformed and when processing fails.
C14_ProcessAnswers ==
    apc = "answered" =>
        /\ http.status = 200 <=> (ppc = "done" /\ result.ok)
        /\ http.status = 200 => http.body.status = "success"
        /\ (MalformedInput(request) \/ (ppc = "done" /\ ~result.ok)) => http.status \in 400..499

(***************************************************************************)
(* Claims about get_db_connection (SpecConn)                               *)
(***************************************************************************)

\* C17: over any sequence of get_db_connection calls in one worker process,
\* concurrent requests included, the secret lookup and the engine creation
\* succeed at most once, and every call that returns hands out the same engine.
C17_OneLookupOneEngine ==
    /\ csecrets <= 1
    /\ cengines <= 1
    /\ Cardinality(chanded) <= 1

\* No call is between line 49 and line 57.
NoCallInFlight == \A t \in Threads : cpc[t] \notin {"extension", "return"}

\* C20: get_db_connection hands out an engine only after the extension step
\* has succeeded on it, and a call that failed leaves no engine cached: an
\* engine cached while no call is at work has had the extension step.
C20_EngineHasExtension ==
    /\ \A e \in chanded : e \in cext
    /\ (db_engine # None /\ NoCallInFlight) => db_engine \in cext

(***************************************************************************)
(* Claims about concurrent runs for one key (SpecConc)                     *)
(***************************************************************************)

AllFinished == \A w \in Workers : wpc[w] \in {"done", "failed"}

RunIdsIn(tbl) == {r.processing_id : r \in BagToSet(tbl.rows)}

=============================================================================
